---- MODULE Spec2Model ----
(***************************************************************************)
(* Model of the wizardry-map-tools editor: the MapEditor session state     *)
(* (src/src/utils/tileLoader.ts, MapEditor part) and the TileCanvas        *)
(* pointer handlers (src/src/components/editor/TileCanvas.tsx).            *)
(*                                                                         *)
(* The default map of 81 x 81 fine cells (27 x 27 blocks of 3 x 3) is      *)
(* scaled down to a strip of a few blocks; the size of the map is the      *)
(* mapData.width / mapData.height of the session.                          *)
(***************************************************************************)
EXTENDS Integers, Sequences, FiniteSets, TLC

VARIABLES
    mapWidth,            \* mapData.width
    mapHeight,           \* mapData.height
    mapTiles,            \* mapData.layers[0].tiles, as [<<x, y>> -> tile id or NoTile]
    arrows,              \* mapData.layers[comments].arrows, a sequence of CommentArrow
    paths,               \* MapEditor paths: array of {x, y} logical coordinates
    selectedTile,        \* MapEditor selectedTile (tile id or NoTile)
    drawingMode,         \* 'tile' | 'path'
    placeOnPathOnly,     \* path-confinement checkbox
    appMode,             \* 'edit' | 'comment'  (activeTab is always set with it)
    isDrawingArrow,      \* MapEditor isDrawingArrow
    currentArrowPoints,  \* MapEditor currentArrowPoints
    selectedArrowColor,  \* MapEditor selectedArrowColor
    isDrawing,           \* TileCanvas isDrawing  (left-button drag active)
    isErasing,           \* TileCanvas isErasing  (right-button drag active)
    processedCells,      \* TileCanvas processedCells (set of logical cell keys)
    probe,               \* last classifier query and the answers of the classifiers
    mapName,             \* mapData.name
    mapId,               \* mapData.mapId (and id): the decimal text of this number
    hasUnsavedChanges,   \* MapEditor hasUnsavedChanges
    elapsed,             \* time run since the auto-save interval was last set
    wizardryMaps,        \* localStorage 'wizardry-maps': the texts of the saved maps
    autoSaveItem,        \* localStorage 'wizardry-map-autosave': a text, << >> when absent
    dialog               \* "save" / "load" when showSaveDialog / showLoadDialog is set

vars == <<mapWidth, mapHeight, mapTiles, arrows, paths, selectedTile, drawingMode, placeOnPathOnly,
          appMode, isDrawingArrow, currentArrowPoints, selectedArrowColor,
          isDrawing, isErasing, processedCells, probe,
          mapName, mapId, hasUnsavedChanges, elapsed, wizardryMaps, autoSaveItem, dialog>>

sizeVars   == <<mapWidth, mapHeight>>
editorVars == <<selectedTile, drawingMode, placeOnPathOnly, appMode>>
arrowVars  == <<isDrawingArrow, currentArrowPoints, selectedArrowColor>>
dragVars   == <<isDrawing, isErasing, processedCells>>
storeVars  == <<mapName, mapId, hasUnsavedChanges, elapsed, wizardryMaps, autoSaveItem, dialog>>

---------------------------------------------------------------------------
(* Bounds of the model *)

EditBlocks == 1        \* blocks of the map of an editing session (one row)
ArrowBlocks == 3       \* blocks of the map of a comment session (one row)
MaxTiles == 1          \* tiles on the map
MaxArrowPoints == 3    \* points held by the finished arrows and the arrow in progress
PathBlocks == 2        \* blocks per row of the map of a path session
MaxPathCells == 3      \* blocks on the paths
MaxOffsetArrows == 3   \* arrows of the collections whose offsets are computed
MaxStoredMaps == 1     \* maps kept in localStorage 'wizardry-maps'
TicksPerInterval == 2  \* steps of the clock in one auto-save interval

(* Program constants *)

BlockSize == 3
DefaultMapSize == 81
TilePixels == 40
ArrowThickness == 10
DefaultMapId == 100001
MinMapId == 100000
MaxMapId == 999999

NoTile == "null"
TileIds == {"map_floor", "map_door2"}
ArrowColors == {"#ff0000", "#0000ff"}

\* String.includes on the tile identifiers of the catalogue
Substrings ==
    [t \in TileIds |->
        CASE t = "map_floor" -> {"map", "floor"}
          [] t = "map_door2" -> {"map", "door", "door2"}]

Includes(name, pattern) == pattern \in Substrings[name]

Cells == (0 .. mapWidth - 1) \X (0 .. mapHeight - 1)
Pt(x, y) == [x |-> x, y |-> y]

\* positions a pointer event can report: every cell of the map, and
\* coordinates out of range on each side of it
ClickPos ==
    {Pt(x, y) : x \in 0 .. mapWidth - 1, y \in 0 .. mapHeight - 1}
      \cup {Pt(-1, 1), Pt(mapWidth, 1), Pt(1, -1), Pt(1, mapHeight)}

---------------------------------------------------------------------------
(* JavaScript arithmetic *)

\* a % n of JavaScript: the result has the sign of the dividend
JsMod(a, n) == IF a >= 0 THEN a % n ELSE -((-a) % n)

\* Math.floor(a / n)
FloorDiv(a, n) == a \div n

Abs(a) == IF a >= 0 THEN a ELSE -a

---------------------------------------------------------------------------
(* TileLoader (src/src/utils/tileLoader.ts) *)

\* TileLoader.isEdgeTile: switch_wall and door2, door3, door4 go on block edges
isEdgeTile(tile) ==
    \/ Includes(tile, "switch_wall")
    \/ Includes(tile, "door2")
    \/ Includes(tile, "door3")
    \/ Includes(tile, "door4")

\* variant of getPlacementType that misses the corners of the right column
getPlacementTypeLeftCorners(x, y) ==
    LET subX == JsMod(FloorDiv(x, TilePixels), BlockSize)
        subY == JsMod(FloorDiv(y, TilePixels), BlockSize)
    IN  IF subX = 0 /\ (subY = 0 \/ subY = 2) THEN "invalid"
        ELSE IF subX = 1 /\ subY = 1 THEN "normal"
        ELSE "edge"

\* TileLoader.getPlacementType(x, y), x and y in pixels
getPlacementType(x, y) ==
    LET subX == JsMod(FloorDiv(x, TilePixels), BlockSize)
        subY == JsMod(FloorDiv(y, TilePixels), BlockSize)
    IN  IF (subX = 0 \/ subX = 2) /\ (subY = 0 \/ subY = 2) THEN "invalid"
        ELSE IF subX = 1 /\ subY = 1 THEN "normal"
        ELSE "edge"

---------------------------------------------------------------------------
(* TileCanvas classification and target resolution *)

\* isValidPlacement(x, y): everything but the corners of the 3x3 pattern
isValidPlacement(x, y) ==
    LET subX == JsMod(x, BlockSize)
        subY == JsMod(y, BlockSize)
    IN  ~((subX = 0 \/ subX = 2) /\ (subY = 0 \/ subY = 2))

\* isDoorTile of getAccessiblePlacementType / getExpandedPlacementType:
\* selectedTile?.id includes 'door' and not 'gate_switch' (undefined, falsy, without a tile)
isDoorTile(tile) ==
    /\ tile # NoTile
    /\ Includes(tile, "door")
    /\ ~Includes(tile, "gate_switch")

\* getAccessiblePlacementType(tilePos)
getAccessiblePlacementType(tilePos) ==
    LET subX == JsMod(tilePos.x, BlockSize)
        subY == JsMod(tilePos.y, BlockSize)
        isEdgePosition == \/ (subX = 1 /\ (subY = 0 \/ subY = 2))
                          \/ (subY = 1 /\ (subX = 0 \/ subX = 2))
    IN  IF (subX = 0 \/ subX = 2) /\ (subY = 0 \/ subY = 2) THEN "invalid"
        ELSE IF subX = 1 /\ subY = 1 THEN "normal"
        ELSE IF isEdgePosition
             THEN (IF isDoorTile(selectedTile) THEN "edge" ELSE "edge")
        ELSE "normal"

\* getExpandedPlacementType(tilePos)
getExpandedPlacementType(tilePos) ==
    LET subX == JsMod(tilePos.x, BlockSize)
        subY == JsMod(tilePos.y, BlockSize)
        edgeTile == IF selectedTile # NoTile THEN isEdgeTile(selectedTile) ELSE FALSE
        isExactEdgePosition == \/ (subX = 1 /\ (subY = 0 \/ subY = 2))
                               \/ (subY = 1 /\ (subX = 0 \/ subX = 2))
    IN  IF (subX = 0 \/ subX = 2) /\ (subY = 0 \/ subY = 2) THEN "invalid"
        ELSE IF drawingMode = "path" THEN "normal"
        ELSE IF selectedTile # NoTile /\ ~edgeTile THEN "normal"
        ELSE IF edgeTile
             THEN (IF isExactEdgePosition THEN "edge"
                   ELSE IF subX = 1 /\ subY = 1 THEN "edge"
                   ELSE "invalid")
        ELSE getAccessiblePlacementType(tilePos)

\* paths.some(p => p.x === x && p.y === y)
PathsHas(ps, x, y) == \E i \in 1 .. Len(ps) : ps[i].x = x /\ ps[i].y = y

\* variant of isPositionOnPath that looks the fine cell up in the paths
isPositionOnPathFine(tilePos) == PathsHas(paths, tilePos.x, tilePos.y)

\* isPositionOnPath(tilePos)
isPositionOnPath(tilePos) ==
    LET logicalX == FloorDiv(tilePos.x, BlockSize)
        logicalY == FloorDiv(tilePos.y, BlockSize)
    IN  PathsHas(paths, logicalX, logicalY)

\* variant of getTargetPosition that leaves a normal tile on the clicked cell
getTargetPositionClicked(tilePos) ==
    LET subX == JsMod(tilePos.x, BlockSize)
        subY == JsMod(tilePos.y, BlockSize)
        blockX == FloorDiv(tilePos.x, BlockSize) * BlockSize
        blockY == FloorDiv(tilePos.y, BlockSize) * BlockSize
        edgeTile == IF selectedTile # NoTile THEN isEdgeTile(selectedTile) ELSE FALSE
    IN  IF edgeTile
        THEN (IF subX = 1 /\ subY = 1 THEN Pt(blockX + 1, blockY + 0) ELSE tilePos)
        ELSE IF drawingMode = "path" THEN Pt(blockX + 1, blockY + 1)
        ELSE tilePos

\* variant of getTargetPosition that sends an edge tile from the center to the
\* bottom edge
getTargetPositionBottom(tilePos) ==
    LET subX == JsMod(tilePos.x, BlockSize)
        subY == JsMod(tilePos.y, BlockSize)
        blockX == FloorDiv(tilePos.x, BlockSize) * BlockSize
        blockY == FloorDiv(tilePos.y, BlockSize) * BlockSize
        edgeTile == IF selectedTile # NoTile THEN isEdgeTile(selectedTile) ELSE FALSE
    IN  IF edgeTile
        THEN (IF subX = 1 /\ subY = 1 THEN Pt(blockX + 1, blockY + 2) ELSE tilePos)
        ELSE IF selectedTile # NoTile /\ ~edgeTile THEN Pt(blockX + 1, blockY + 1)
        ELSE IF drawingMode = "path" THEN Pt(blockX + 1, blockY + 1)
        ELSE tilePos

\* getTargetPosition(tilePos)
getTargetPosition(tilePos) ==
    LET subX == JsMod(tilePos.x, BlockSize)
        subY == JsMod(tilePos.y, BlockSize)
        blockX == FloorDiv(tilePos.x, BlockSize) * BlockSize
        blockY == FloorDiv(tilePos.y, BlockSize) * BlockSize
        edgeTile == IF selectedTile # NoTile THEN isEdgeTile(selectedTile) ELSE FALSE
    IN  IF edgeTile
        THEN (IF subX = 1 /\ subY = 1 THEN Pt(blockX + 1, blockY + 0) ELSE tilePos)
        ELSE IF selectedTile # NoTile /\ ~edgeTile THEN Pt(blockX + 1, blockY + 1)
        ELSE IF drawingMode = "path" THEN Pt(blockX + 1, blockY + 1)
        ELSE tilePos

InRange(tilePos) ==
    ~(tilePos.x < 0 \/ tilePos.x >= mapWidth \/ tilePos.y < 0 \/ tilePos.y >= mapHeight)

---------------------------------------------------------------------------
(* TileCanvas mutations of the tile grid and of the paths.  Each operator   *)
(* gives the value the handler passes to onMapDataChange / onPathsChange    *)
(* (the unchanged value when the handler returns early).                    *)

\* the logical-cell key `${logicalX},${logicalY}` of processedCells
CellKey(tilePos) == <<FloorDiv(tilePos.x, BlockSize), FloorDiv(tilePos.y, BlockSize)>>

\* addPathPoint passes its guards: in range, placement type 'normal', and not
\* already processed in this drag (processed: the processedCells of the render)
addPathPointProceeds(tilePos, isFirstClick, processed) ==
    /\ InRange(tilePos)
    /\ getExpandedPlacementType(tilePos) = "normal"
    /\ ~(~isFirstClick /\ CellKey(tilePos) \in processed)

\* variant of addPathPoint that does not look for the block in the paths
addPathPointAgain(tilePos, isFirstClick, processed) ==
    IF ~addPathPointProceeds(tilePos, isFirstClick, processed) THEN paths
    ELSE Append(paths, Pt(FloorDiv(tilePos.x, BlockSize), FloorDiv(tilePos.y, BlockSize)))

\* addPathPoint(tilePos, isFirstClick): the new paths
addPathPoint(tilePos, isFirstClick, processed) ==
    LET logicalX == FloorDiv(tilePos.x, BlockSize)
        logicalY == FloorDiv(tilePos.y, BlockSize)
    IN  IF ~addPathPointProceeds(tilePos, isFirstClick, processed) THEN paths
        ELSE IF ~PathsHas(paths, logicalX, logicalY)
             THEN Append(paths, Pt(logicalX, logicalY))
        ELSE paths

\* placeTile passes its guards and calls onMapDataChange
placeTileProceeds(tilePos) ==
    /\ selectedTile # NoTile /\ InRange(tilePos)
    /\ ~(placeOnPathOnly /\ ~isPositionOnPath(tilePos))
    /\ isValidPlacement(getTargetPosition(tilePos).x, getTargetPosition(tilePos).y)
    /\ ~(getExpandedPlacementType(tilePos) = "edge" /\ ~isEdgeTile(selectedTile))
    /\ ~(getExpandedPlacementType(tilePos) = "normal" /\ isEdgeTile(selectedTile))

\* variant of placeTile without the isValidPlacement test of the target
placeTileAnyTarget(tilePos) ==
    IF selectedTile = NoTile \/ ~InRange(tilePos) THEN mapTiles
    ELSE IF placeOnPathOnly /\ ~isPositionOnPath(tilePos) THEN mapTiles
    ELSE LET targetPos == getTargetPosition(tilePos)
             placementType == getExpandedPlacementType(tilePos)
             edgeTile == isEdgeTile(selectedTile)
         IN  IF placementType = "edge" /\ ~edgeTile THEN mapTiles
             ELSE IF placementType = "normal" /\ edgeTile THEN mapTiles
             ELSE [mapTiles EXCEPT ![<<targetPos.x, targetPos.y>>] = selectedTile]

\* placeTile(tilePos): the new first-layer tiles
placeTile(tilePos) ==
    IF selectedTile = NoTile \/ ~InRange(tilePos) THEN mapTiles
    ELSE IF placeOnPathOnly /\ ~isPositionOnPath(tilePos) THEN mapTiles
    ELSE LET targetPos == getTargetPosition(tilePos)
             placementType == getExpandedPlacementType(tilePos)
             edgeTile == isEdgeTile(selectedTile)
         IN  IF ~isValidPlacement(targetPos.x, targetPos.y) THEN mapTiles
             ELSE IF placementType = "edge" /\ ~edgeTile THEN mapTiles
             ELSE IF placementType = "normal" /\ edgeTile THEN mapTiles
             ELSE [mapTiles EXCEPT ![<<targetPos.x, targetPos.y>>] = selectedTile]

\* variant of removeTile that pulls the position into the map instead of returning
removeTileClamped(tilePos) ==
    LET cx == IF tilePos.x < 0 THEN 0
              ELSE IF tilePos.x >= mapWidth THEN mapWidth - 1 ELSE tilePos.x
        cy == IF tilePos.y < 0 THEN 0
              ELSE IF tilePos.y >= mapHeight THEN mapHeight - 1 ELSE tilePos.y
    IN  [mapTiles EXCEPT ![<<cx, cy>>] = NoTile]

\* variant of removeTile that erases at the target cell of a placement
removeTileAtTarget(tilePos) ==
    IF ~InRange(tilePos) THEN mapTiles
    ELSE LET targetPos == getTargetPosition(tilePos)
         IN  [mapTiles EXCEPT ![<<targetPos.x, targetPos.y>>] = NoTile]

\* removeTile(tilePos): the new first-layer tiles
removeTile(tilePos) ==
    IF ~InRange(tilePos) THEN mapTiles
    ELSE [mapTiles EXCEPT ![<<tilePos.x, tilePos.y>>] = NoTile]

\* index of the first element of ps equal to (x, y), 0 when there is none (findIndex)
FindIndex(ps, x, y) ==
    IF PathsHas(ps, x, y)
    THEN CHOOSE i \in 1 .. Len(ps) :
            /\ ps[i].x = x /\ ps[i].y = y
            /\ \A j \in 1 .. i - 1 : ~(ps[j].x = x /\ ps[j].y = y)
    ELSE 0

\* ps.filter((_, i) => i !== k)
RemoveAt(ps, k) == [i \in 1 .. Len(ps) - 1 |-> IF i < k THEN ps[i] ELSE ps[i + 1]]

\* removePathPoint(tilePos): the new paths
removePathPoint(tilePos) ==
    LET logicalX == FloorDiv(tilePos.x, BlockSize)
        logicalY == FloorDiv(tilePos.y, BlockSize)
        existingIndex == FindIndex(paths, logicalX, logicalY)
    IN  IF ~InRange(tilePos) THEN paths
        ELSE IF existingIndex # 0 THEN RemoveAt(paths, existingIndex)
        ELSE paths

---------------------------------------------------------------------------
(* TileCanvas path walls *)

Directions == {"top", "right", "bottom", "left"}

\* the directions table of hasPathConnection
Delta(direction) ==
    CASE direction = "top" -> Pt(0, -1)
      [] direction = "right" -> Pt(1, 0)
      [] direction = "bottom" -> Pt(0, 1)
      [] direction = "left" -> Pt(-1, 0)

\* variant of hasPathConnection that looks the wrong way vertically
hasPathConnectionFlipped(pathPoint, direction) ==
    PathsHas(paths, pathPoint.x + Delta(direction).x, pathPoint.y - Delta(direction).y)

\* hasPathConnection(pathPoint, direction)
hasPathConnection(pathPoint, direction) ==
    LET delta == Delta(direction)
        neighborX == pathPoint.x + delta.x
        neighborY == pathPoint.y + delta.y
    IN  PathsHas(paths, neighborX, neighborY)

\* drawPathWalls: the walls drawn, as pairs of a path cell and a side
drawPathWalls ==
    {w \in {paths[i] : i \in 1 .. Len(paths)} \X Directions :
        ~hasPathConnection(w[1], w[2])}

---------------------------------------------------------------------------
(* TileCanvas arrow validation *)

\* getTileCenterPosition(tilePos): the position itself
getTileCenterPosition(tilePos) == Pt(tilePos.x, tilePos.y)

\* variant of isValidArrowPosition without the corner test
isValidArrowPositionAnyCell(tilePos) ==
    PathsHas(paths, FloorDiv(tilePos.x, BlockSize), FloorDiv(tilePos.y, BlockSize))

\* isValidArrowPosition(tilePos): not a corner, and its block on a path
isValidArrowPosition(tilePos) ==
    LET subX == JsMod(tilePos.x, BlockSize)
        subY == JsMod(tilePos.y, BlockSize)
        isCorner == (subX = 0 \/ subX = 2) /\ (subY = 0 \/ subY = 2)
        logicalX == FloorDiv(tilePos.x, BlockSize)
        logicalY == FloorDiv(tilePos.y, BlockSize)
    IN  IF isCorner THEN FALSE ELSE PathsHas(paths, logicalX, logicalY)

\* isStraightLine(point1, point2)
isStraightLine(point1, point2) ==
    LET center1 == getTileCenterPosition(point1)
        center2 == getTileCenterPosition(point2)
        isHorizontal == center1.y = center2.y /\ Abs(center1.x - center2.x) > 0
        isVertical == center1.x = center2.x /\ Abs(center1.y - center2.y) > 0
    IN  isHorizontal \/ isVertical

\* doesLinePassThroughWalls(point1, point2): straight lines never do
doesLinePassThroughWalls(point1, point2) ==
    LET center1 == getTileCenterPosition(point1)
        center2 == getTileCenterPosition(point2)
    IN  IF center1.x = center2.x /\ center1.y = center2.y THEN FALSE
        ELSE IF ~isStraightLine(point1, point2) THEN TRUE
        ELSE FALSE

\* variant of arePointsAdjacentAndAligned that wants neighbouring cells
arePointsNeighbours(point1, point2) ==
    LET center1 == getTileCenterPosition(point1)
        center2 == getTileCenterPosition(point2)
        dx == Abs(center2.x - center1.x)
        dy == Abs(center2.y - center1.y)
    IN  (dy = 0 /\ dx = 1) \/ (dx = 0 /\ dy = 1)

\* arePointsAdjacentAndAligned(point1, point2): any straight distance
arePointsAdjacentAndAligned(point1, point2) ==
    LET center1 == getTileCenterPosition(point1)
        center2 == getTileCenterPosition(point2)
        dx == Abs(center2.x - center1.x)
        dy == Abs(center2.y - center1.y)
    IN  (dy = 0 /\ dx > 0) \/ (dx = 0 /\ dy > 0)

\* variant of isValidArrowSegment that only looks at the new point
isValidArrowSegmentAnyDirection(newPoint) == isValidArrowPosition(newPoint)

\* isValidArrowSegment(newPoint)
isValidArrowSegment(newPoint) ==
    IF Len(currentArrowPoints) = 0 THEN isValidArrowPosition(newPoint)
    ELSE LET lastPoint == currentArrowPoints[Len(currentArrowPoints)]
             newPointValid == isValidArrowPosition(newPoint)
             isStraight == isStraightLine(lastPoint, newPoint)
             isAdjacent == arePointsAdjacentAndAligned(lastPoint, newPoint)
             passesWalls == doesLinePassThroughWalls(lastPoint, newPoint)
         IN  newPointValid /\ isStraight /\ isAdjacent /\ ~passesWalls

\* the id `arrow-${Date.now()}-${Math.random()}` of a new arrow: an id no arrow
\* of the collection has
NewArrowId ==
    CHOOSE n \in 1 .. Len(arrows) + 1 : \A i \in 1 .. Len(arrows) : arrows[i].id # n

\* variant of createArrowFromPoints that always draws in the default colour
createArrowFromPointsRed(points) ==
    IF Len(points) < 2 THEN arrows
    ELSE Append(arrows, [id |-> NewArrowId,
                         points |-> [i \in 1 .. Len(points) |-> getTileCenterPosition(points[i])],
                         color |-> "#ff0000",
                         thickness |-> ArrowThickness])

\* variant of createArrowFromPoints without the test of the number of points
createArrowFromPointsAnyLength(points) ==
    Append(arrows, [id |-> NewArrowId,
                    points |-> [i \in 1 .. Len(points) |-> getTileCenterPosition(points[i])],
                    color |-> selectedArrowColor,
                    thickness |-> ArrowThickness])

\* createArrowFromPoints(points): the new arrow collection
createArrowFromPoints(points) ==
    IF Len(points) < 2 THEN arrows
    ELSE LET centerPoints == [i \in 1 .. Len(points) |-> getTileCenterPosition(points[i])]
             newArrow == [id |-> NewArrowId,
                          points |-> centerPoints,
                          color |-> selectedArrowColor,
                          thickness |-> ArrowThickness]
         IN  Append(arrows, newArrow)

\* variant of removeArrowAtPosition that cuts the points near the click out of
\* the arrows
removeArrowAtPositionPoints(tilePos) ==
    LET clickedCenter == getTileCenterPosition(tilePos)
        far(point) == Abs(point.x - clickedCenter.x) + Abs(point.y - clickedCenter.y) > 1
    IN  [i \in 1 .. Len(arrows) |-> [arrows[i] EXCEPT !.points = SelectSeq(@, far)]]

\* removeArrowAtPosition(tilePos): the new arrow collection
removeArrowAtPosition(tilePos) ==
    LET clickedCenter == getTileCenterPosition(tilePos)
        near(arrow) == \E k \in 1 .. Len(arrow.points) :
                          Abs(arrow.points[k].x - clickedCenter.x)
                            + Abs(arrow.points[k].y - clickedCenter.y) <= 1
        arrowsToRemove == {arrows[i].id : i \in {j \in 1 .. Len(arrows) : near(arrows[j])}}
        keep(arrow) == arrow.id \notin arrowsToRemove
    IN  IF arrowsToRemove # {} THEN SelectSeq(arrows, keep) ELSE arrows

---------------------------------------------------------------------------
(* TileCanvas arrow offsets.  The segments of the stored arrows are        *)
(* horizontal or vertical, so the length of a segment is a whole number    *)
(* and the divisions by it are exact.                                      *)

OffsetDistance == 12

\* Math.sqrt on the squares
Sqrt(n) == CHOOSE r \in 0 .. n : r * r = n

\* variant of calculatePerpendicularOffset that does not rotate the direction
calculateParallelOffset(point1, point2, offsetDistance) ==
    LET dx == point2.x - point1.x
        dy == point2.y - point1.y
        length == Sqrt(dx * dx + dy * dy)
    IN  IF length = 0 THEN Pt(0, 0)
        ELSE Pt((dx \div length) * offsetDistance, (dy \div length) * offsetDistance)

\* calculatePerpendicularOffset(point1, point2, offsetDistance)
calculatePerpendicularOffset(point1, point2, offsetDistance) ==
    LET dx == point2.x - point1.x
        dy == point2.y - point1.y
        length == Sqrt(dx * dx + dy * dy)
    IN  IF length = 0 THEN Pt(0, 0)
        ELSE LET perpX == (-dy) \div length
                 perpY == dx \div length
             IN  Pt(perpX * offsetDistance, perpY * offsetDistance)

\* variant of the overlappingArrows filter that looks at every other arrow
overlappingArrowsAll(as, arrowIndex, currentPoint) ==
    {otherIndex \in 0 .. Len(as) - 1 :
        /\ otherIndex # arrowIndex
        /\ \E q \in 1 .. Len(as[otherIndex + 1].points) :
              /\ Abs(as[otherIndex + 1].points[q].x - currentPoint.x) <= 1
              /\ Abs(as[otherIndex + 1].points[q].y - currentPoint.y) <= 1}

\* the overlappingArrows filter: the indices of the previous arrows with a
\* point near currentPoint (arrowIndex and the result count from 0)
overlappingArrows(as, arrowIndex, currentPoint) ==
    {otherIndex \in 0 .. Len(as) - 1 :
        /\ ~(otherIndex >= arrowIndex)
        /\ \E q \in 1 .. Len(as[otherIndex + 1].points) :
              /\ Abs(as[otherIndex + 1].points[q].x - currentPoint.x) <= 1
              /\ Abs(as[otherIndex + 1].points[q].y - currentPoint.y) <= 1}

\* variant of the loop over the points that offsets the first point too, along
\* the first segment
offsetPointsFromFirst(as, arrowIndex) ==
    LET arrow == as[arrowIndex + 1]
        side == IF arrowIndex % 2 = 0 THEN 1 ELSE -1
        scale == side * ((arrowIndex \div 2) + 1)
    IN  [n \in 1 .. Len(arrow.points) |->
            LET currentPoint == arrow.points[n]
                prevPoint == IF n = 1 THEN arrow.points[2] ELSE arrow.points[n - 1]
                perpOffset == calculatePerpendicularOffset(prevPoint, currentPoint, OffsetDistance)
            IN  IF overlappingArrows(as, arrowIndex, currentPoint) # {}
                THEN Pt(perpOffset.x * scale, perpOffset.y * scale)
                ELSE Pt(0, 0)]

\* the loop over the points of calculateArrowOffsets: the offsetPoints of the
\* arrow at arrowIndex (from 0); point i of the code is element i + 1
offsetPoints(as, arrowIndex) ==
    LET arrow == as[arrowIndex + 1]
    IN  [n \in 1 .. Len(arrow.points) |->
            LET i == n - 1
                currentPoint == arrow.points[n]
                prevPoint == arrow.points[n - 1]
                perpOffset == calculatePerpendicularOffset(prevPoint, currentPoint, OffsetDistance)
                side == IF arrowIndex % 2 = 0 THEN 1 ELSE -1
            IN  IF overlappingArrows(as, arrowIndex, currentPoint) # {} /\ i > 0
                THEN Pt(perpOffset.x * side * ((arrowIndex \div 2) + 1),
                        perpOffset.y * side * ((arrowIndex \div 2) + 1))
                ELSE Pt(0, 0)]

\* calculateArrowOffsets(arrows): the offsetMap, from the arrow ids to the
\* offsets of their points (a later arrow of the same id replaces the entry)
calculateArrowOffsets(as) ==
    [id \in {as[n].id : n \in 1 .. Len(as)} |->
        LET last == CHOOSE n \in 1 .. Len(as) :
                       as[n].id = id /\ \A k \in n + 1 .. Len(as) : as[k].id # id
        IN  offsetPoints(as, last - 1)]

---------------------------------------------------------------------------
(* Bounds on the size of the state, conjoined (primed) to the handlers *)

TileCount(tiles) == Cardinality({c \in Cells : tiles[c] # NoTile})

RECURSIVE StoredPoints(_)
StoredPoints(as) ==
    IF as = << >> THEN 0 ELSE Len(Head(as).points) + StoredPoints(Tail(as))

Bounded ==
    /\ TileCount(mapTiles) <= MaxTiles
    /\ Len(currentArrowPoints) + StoredPoints(arrows) <= MaxArrowPoints
    /\ Len(paths) <= MaxPathCells

\* a step stays within the bounds, or adds nothing to what they limit
WithinBounds ==
    \/ Bounded'
    \/ /\ TileCount(mapTiles') <= TileCount(mapTiles)
       /\ Len(currentArrowPoints') + StoredPoints(arrows')
            <= Len(currentArrowPoints) + StoredPoints(arrows)
       /\ Len(paths') <= Len(paths)

---------------------------------------------------------------------------
(* The state after construction: MapEditor's useState initial values and   *)
(* TileCanvas's useState initial values                                    *)

\* the stored part of the session after the mount: the change-tracking effect
\* has run once and set hasUnsavedChanges; localStorage holds nothing
InitStore ==
    /\ mapName = "New Map"
    /\ mapId = DefaultMapId
    /\ hasUnsavedChanges = TRUE
    /\ elapsed = 0
    /\ wizardryMaps = << >>
    /\ autoSaveItem = << >>
    /\ dialog = "none"

\* what a handler leaves behind in MapEditor: called says that it passed a new
\* mapData or paths to setMapData / setPaths (onMapDataChange, onPathsChange),
\* flagged that it called setHasUnsavedChanges(true).  A new mapData or paths
\* runs the change-tracking effect, which sets hasUnsavedChanges, and a change
\* of mapData, paths or hasUnsavedChanges sets the auto-save interval anew.
onChange(called, flagged) ==
    /\ hasUnsavedChanges' = (hasUnsavedChanges \/ called \/ flagged)
    /\ elapsed' = IF called \/ hasUnsavedChanges' # hasUnsavedChanges THEN 0 ELSE elapsed
    /\ UNCHANGED <<mapName, mapId, wizardryMaps, autoSaveItem, dialog>>

NoProbe == [x |-> -1, y |-> -1, valid |-> FALSE, canvas |-> "none", loader |-> "none"]

InitEditor(width, height) ==
    /\ mapWidth = width
    /\ mapHeight = height
    /\ mapTiles = [c \in (0 .. width - 1) \X (0 .. height - 1) |-> NoTile]
    /\ arrows = << >>
    /\ paths = << >>
    /\ selectedTile = NoTile
    /\ drawingMode = "tile"
    /\ placeOnPathOnly = TRUE
    /\ appMode = "edit"
    /\ isDrawingArrow = FALSE
    /\ currentArrowPoints = << >>
    /\ selectedArrowColor = "#ff0000"
    /\ isDrawing = FALSE
    /\ isErasing = FALSE
    /\ processedCells = {}
    /\ InitStore

Init ==
    /\ InitEditor(BlockSize * ArrowBlocks, BlockSize)
    /\ probe = NoProbe

---------------------------------------------------------------------------
(* TileCanvas pointer handlers *)

\* variant of the left press in comment mode that gives the arrow up when a
\* breakpoint is refused
MouseDownLeftCommentAborting(tilePos) ==
    /\ IF isValidArrowPosition(tilePos)
       THEN IF ~isDrawingArrow
            THEN /\ isDrawingArrow' = TRUE
                 /\ currentArrowPoints' = <<Pt(tilePos.x, tilePos.y)>>
            ELSE IF isValidArrowSegment(tilePos)
                 THEN /\ currentArrowPoints' = Append(currentArrowPoints, Pt(tilePos.x, tilePos.y))
                      /\ UNCHANGED isDrawingArrow
                 ELSE /\ isDrawingArrow' = FALSE
                      /\ currentArrowPoints' = << >>
       ELSE UNCHANGED <<isDrawingArrow, currentArrowPoints>>
    /\ UNCHANGED <<mapTiles, arrows, paths, dragVars>>

\* handleMouseDown, left button, comment mode: start an arrow or add a breakpoint
MouseDownLeftComment(tilePos) ==
    /\ IF isValidArrowPosition(tilePos)
       THEN IF ~isDrawingArrow
            THEN /\ isDrawingArrow' = TRUE
                 /\ currentArrowPoints' = <<Pt(tilePos.x, tilePos.y)>>
            ELSE IF isValidArrowSegment(tilePos)
                 THEN /\ currentArrowPoints' = Append(currentArrowPoints, Pt(tilePos.x, tilePos.y))
                      /\ UNCHANGED isDrawingArrow
                 ELSE UNCHANGED <<isDrawingArrow, currentArrowPoints>>
       ELSE UNCHANGED <<isDrawingArrow, currentArrowPoints>>
    /\ UNCHANGED <<mapTiles, arrows, paths, dragVars>>

\* handleMouseDown, left button, edit mode: start a drag and draw at the cell
MouseDownLeftEdit(tilePos) ==
    /\ isDrawing' = TRUE
    /\ IF drawingMode = "path"
       THEN /\ paths' = addPathPoint(tilePos, TRUE, {})
            /\ processedCells' = IF addPathPointProceeds(tilePos, TRUE, {})
                                 THEN {CellKey(tilePos)} ELSE {}
            /\ UNCHANGED mapTiles
       ELSE /\ mapTiles' = IF selectedTile # NoTile THEN placeTile(tilePos) ELSE mapTiles
            /\ processedCells' = {}
            /\ UNCHANGED paths
    /\ UNCHANGED <<arrows, isDrawingArrow, currentArrowPoints, isErasing>>

\* variant of the right press in comment mode that keeps the points of the
\* finished arrow
MouseDownRightCommentKeeping(tilePos) ==
    /\ IF isDrawingArrow /\ Len(currentArrowPoints) > 0
       THEN /\ arrows' = createArrowFromPoints(currentArrowPoints)
            /\ isDrawingArrow' = FALSE
            /\ UNCHANGED currentArrowPoints
       ELSE /\ arrows' = removeArrowAtPosition(tilePos)
            /\ UNCHANGED <<isDrawingArrow, currentArrowPoints>>
    /\ UNCHANGED <<mapTiles, paths, dragVars>>

\* variant of the right press on the comment tab that removes the arrows at the
\* position whether or not an arrow is in progress
MouseDownRightCommentRemoving(tilePos) ==
    /\ arrows' = removeArrowAtPosition(tilePos)
    /\ IF isDrawingArrow /\ Len(currentArrowPoints) > 0
       THEN isDrawingArrow' = FALSE /\ currentArrowPoints' = << >>
       ELSE UNCHANGED <<isDrawingArrow, currentArrowPoints>>
    /\ UNCHANGED <<mapTiles, paths, dragVars>>

\* handleMouseDown, right button, comment mode: finish the arrow or remove arrows
MouseDownRightComment(tilePos) ==
    /\ IF isDrawingArrow /\ Len(currentArrowPoints) > 0
       THEN /\ arrows' = createArrowFromPoints(currentArrowPoints)
            /\ isDrawingArrow' = FALSE
            /\ currentArrowPoints' = << >>
       ELSE /\ arrows' = removeArrowAtPosition(tilePos)
            /\ UNCHANGED <<isDrawingArrow, currentArrowPoints>>
    /\ UNCHANGED <<mapTiles, paths, dragVars>>

\* removeTile applied to a given grid (the handlers write the shared tiles array)
removeTileIn(tiles, tilePos) ==
    IF ~InRange(tilePos) THEN tiles
    ELSE [tiles EXCEPT ![<<tilePos.x, tilePos.y>>] = NoTile]

\* handleMouseDown, right button, edit mode: start erasing and erase at the cell
MouseDownRightEdit(tilePos) ==
    /\ isErasing' = TRUE
    /\ processedCells' = {}
    /\ IF drawingMode = "tile"
       THEN mapTiles' = removeTile(tilePos) /\ UNCHANGED paths
       ELSE paths' = removePathPoint(tilePos) /\ UNCHANGED mapTiles
    /\ UNCHANGED <<arrows, isDrawingArrow, currentArrowPoints, isDrawing>>

\* handleMouseDown(event): button 0 is the left button, button 2 the right one
handleMouseDown(button, tilePos) ==
    /\ IF button = 0
       THEN IF appMode = "comment" THEN MouseDownLeftComment(tilePos)
                                   ELSE MouseDownLeftEdit(tilePos)
       ELSE IF appMode = "comment" THEN MouseDownRightComment(tilePos)
                                   ELSE MouseDownRightEdit(tilePos)
    /\ onChange(\/ paths' # paths
                \/ arrows' # arrows
                \/ /\ button = 0 /\ appMode # "comment" /\ drawingMode # "path"
                   /\ placeTileProceeds(tilePos)
                \/ /\ button # 0 /\ appMode # "comment" /\ drawingMode = "tile"
                   /\ InRange(tilePos),
                FALSE)
    /\ UNCHANGED <<sizeVars, editorVars, selectedArrowColor, probe>>
    /\ WithinBounds

\* handleMouseMove(event): continue the drag / the erasure at the cell.  Both
\* parts read the state of the same render; the tile writes go to the shared
\* tiles array one after the other, the last onPathsChange wins.
handleMouseMove(tilePos) ==
    LET drawPaths == IF isDrawing /\ drawingMode = "path"
                     THEN addPathPoint(tilePos, FALSE, processedCells) ELSE paths
        drawTiles == IF isDrawing /\ drawingMode # "path" /\ selectedTile # NoTile
                     THEN placeTile(tilePos) ELSE mapTiles
        erasesPath == isErasing /\ drawingMode # "tile" /\ removePathPoint(tilePos) # paths
    IN  /\ mapTiles' = IF isErasing /\ drawingMode = "tile"
                       THEN removeTileIn(drawTiles, tilePos) ELSE drawTiles
        /\ paths' = IF erasesPath THEN removePathPoint(tilePos) ELSE drawPaths
        /\ processedCells' =
              IF isDrawing /\ drawingMode = "path"
                 /\ addPathPointProceeds(tilePos, FALSE, processedCells)
              THEN processedCells \cup {CellKey(tilePos)} ELSE processedCells
        /\ UNCHANGED <<arrows, isDrawingArrow, currentArrowPoints, isDrawing, isErasing>>
        /\ onChange(\/ paths' # paths
                    \/ isDrawing /\ drawingMode # "path" /\ placeTileProceeds(tilePos)
                    \/ isErasing /\ drawingMode = "tile" /\ InRange(tilePos),
                    FALSE)
        /\ UNCHANGED <<sizeVars, editorVars, selectedArrowColor, probe>>
        /\ WithinBounds

\* handleMouseUp(): the drag ends
handleMouseUp ==
    /\ isDrawing' = FALSE
    /\ isErasing' = FALSE
    /\ processedCells' = {}
    /\ UNCHANGED <<sizeVars, mapTiles, arrows, paths, editorVars, arrowVars, probe, storeVars>>

\* handleMouseLeave(): the pointer leaves the canvas, the drag ends
handleMouseLeave ==
    /\ isDrawing' = FALSE
    /\ isErasing' = FALSE
    /\ processedCells' = {}
    /\ UNCHANGED <<sizeVars, mapTiles, arrows, paths, editorVars, arrowVars, probe, storeVars>>

---------------------------------------------------------------------------
(* MapEditor controls *)

\* handleTileSelect(tile): the tile palette, shown on the edit tab
handleTileSelect(tile) ==
    /\ appMode = "edit"
    /\ selectedTile' = tile
    /\ drawingMode' = "tile"
    /\ onChange(FALSE, TRUE)
    /\ UNCHANGED <<sizeVars, mapTiles, arrows, paths, placeOnPathOnly, appMode, arrowVars,
                   dragVars, probe>>

\* handleTabSwitch(tab)
handleTabSwitch(tab) ==
    /\ appMode' = tab
    /\ selectedTile' = IF tab = "comment" THEN NoTile ELSE selectedTile
    /\ UNCHANGED <<sizeVars, mapTiles, arrows, paths, drawingMode, placeOnPathOnly, arrowVars,
                   dragVars, probe, storeVars>>

\* the "Tiles" button (shown in edit mode): setDrawingMode('tile')
setDrawingModeTile ==
    /\ appMode = "edit"
    /\ drawingMode' = "tile"
    /\ UNCHANGED <<sizeVars, mapTiles, arrows, paths, selectedTile, placeOnPathOnly, appMode,
                   arrowVars, dragVars, probe, storeVars>>

\* the "Path" button (shown in edit mode): setDrawingMode('path'), setSelectedTile(null)
setDrawingModePath ==
    /\ appMode = "edit"
    /\ drawingMode' = "path"
    /\ selectedTile' = NoTile
    /\ UNCHANGED <<sizeVars, mapTiles, arrows, paths, placeOnPathOnly, appMode, arrowVars,
                   dragVars, probe, storeVars>>

\* the "Place tiles on path only" checkbox (shown in edit mode)
setPlaceOnPathOnly(checked) ==
    /\ appMode = "edit"
    /\ placeOnPathOnly' = checked
    /\ UNCHANGED <<sizeVars, mapTiles, arrows, paths, selectedTile, drawingMode, appMode,
                   arrowVars, dragVars, probe, storeVars>>

\* the arrow colour picker (shown on the comment tab)
setSelectedArrowColor(color) ==
    /\ appMode = "comment"
    /\ selectedArrowColor' = color
    /\ UNCHANGED <<sizeVars, mapTiles, arrows, paths, editorVars, isDrawingArrow,
                   currentArrowPoints, dragVars, probe, storeVars>>

\* the "Clear All Arrows" button (comment tab, disabled without arrows)
clearAllArrows ==
    /\ appMode = "comment"
    /\ Len(arrows) > 0
    /\ arrows' = << >>
    /\ onChange(TRUE, TRUE)
    /\ UNCHANGED <<sizeVars, mapTiles, paths, editorVars, arrowVars, dragVars, probe>>

\* handleGlobalRightClick: a right click outside the canvas drops the selected tile
handleGlobalRightClick ==
    /\ selectedTile # NoTile
    /\ selectedTile' = NoTile
    /\ UNCHANGED <<sizeVars, mapTiles, arrows, paths, drawingMode, placeOnPathOnly, appMode,
                   arrowVars, dragVars, probe, storeVars>>

---------------------------------------------------------------------------
(* The classifiers applied to one fine cell: the canvas classifiers        *)
(* isValidPlacement and getAccessiblePlacementType at (x, y), and          *)
(* TileLoader.getPlacementType at the pixel (40 x, 40 y)                   *)

Classify ==
    /\ probe.canvas = "none"
    /\ probe' = [probe EXCEPT
                   !.valid = isValidPlacement(probe.x, probe.y),
                   !.canvas = getAccessiblePlacementType(Pt(probe.x, probe.y)),
                   !.loader = getPlacementType(TilePixels * probe.x, TilePixels * probe.y)]
    /\ UNCHANGED <<sizeVars, mapTiles, arrows, paths, editorVars, arrowVars, dragVars, storeVars>>

---------------------------------------------------------------------------
(* The documents of localStorage.  A document is the text JSON.stringify    *)
(* writes, kept as its sequence of tokens (punctuation, keys, the content   *)
(* of a string after its quote, the digits of a number); the separators     *)
(* between members are left out.  JSON.parse reads the tokens back.         *)

Digits == <<"0", "1", "2", "3", "4", "5", "6", "7", "8", "9">>
DigitValue(d) == CHOOSE v \in 0 .. 9 : Digits[v + 1] = d
IsDigit(d) == \E v \in 0 .. 9 : Digits[v + 1] = d

\* Number.prototype.toString, as JSON.stringify writes a whole number
RECURSIVE NumberText(_)
NumberText(n) ==
    IF n < 0 THEN <<"-">> \o NumberText(-n)
    ELSE IF n < 10 THEN <<Digits[n + 1]>>
    ELSE NumberText(n \div 10) \o <<Digits[(n % 10) + 1]>>

StringText(str) == <<"\"", str>>

\* a string that holds the digits of a number
NumberStringText(n) == <<"\"">> \o NumberText(n)

RECURSIVE Concat(_)
Concat(texts) == IF texts = << >> THEN << >> ELSE Head(texts) \o Concat(Tail(texts))

ArrayText(texts) == <<"[">> \o Concat(texts) \o <<"]">>

PointText(point) ==
    <<"{", "x:">> \o NumberText(point.x) \o <<"y:">> \o NumberText(point.y) \o <<"}">>

PointsText(points) == ArrayText([k \in 1 .. Len(points) |-> PointText(points[k])])

ArrowText(arrow) ==
    <<"{", "id:", "\"arrow-">> \o NumberText(arrow.id)
      \o <<"points:">> \o PointsText(arrow.points)
      \o <<"color:">> \o StringText(arrow.color)
      \o <<"thickness:">> \o NumberText(arrow.thickness) \o <<"}">>

\* the rows tiles[y] of a layer, each a row of tile ids and nulls
TilesText(tiles, width, height) ==
    ArrayText([y \in 1 .. height |->
        ArrayText([x \in 1 .. width |->
            IF tiles[<<x - 1, y - 1>>] = NoTile THEN <<"null">>
            ELSE StringText(tiles[<<x - 1, y - 1>>])])])

\* JSON.stringify of a map with its paths
stringify(map) ==
    <<"{", "id:">> \o NumberStringText(map.mapId)
      \o <<"name:">> \o StringText(map.name)
      \o <<"width:">> \o NumberText(map.width)
      \o <<"height:">> \o NumberText(map.height)
      \o <<"mapId:">> \o NumberStringText(map.mapId)
      \o <<"layers:", "[", "{", "type:">> \o StringText("tiles")
      \o <<"tiles:">> \o TilesText(map.tiles, map.width, map.height)
      \o <<"}", "{", "type:">> \o StringText("comments")
      \o <<"arrows:">> \o ArrayText([k \in 1 .. Len(map.arrows) |-> ArrowText(map.arrows[k])])
      \o <<"}", "]", "paths:">> \o PointsText(map.paths) \o <<"}">>

\* the readers give the value read and the position after it

\* Then(value, Rest): Rest applied to the value, the value worked out once
Then(value, Rest(_)) == CHOOSE result \in {Rest(read) : read \in {value}} : TRUE

RECURSIVE parseDigits(_, _, _)
parseDigits(text, i, n) ==
    IF i <= Len(text) /\ IsDigit(text[i])
    THEN parseDigits(text, i + 1, 10 * n + DigitValue(text[i]))
    ELSE [v |-> n, i |-> i]

parseNumber(text, i) ==
    IF text[i] = "-"
    THEN [v |-> -parseDigits(text, i + 1, 0).v, i |-> parseDigits(text, i + 1, 0).i]
    ELSE parseDigits(text, i, 0)

\* parseInt of a text of digits (NaN, here -1, when it does not start with a number)
parseInt(text) ==
    IF text # << >> /\ (IsDigit(text[1]) \/ (Len(text) > 1 /\ text[1] = "-" /\ IsDigit(text[2])))
    THEN parseNumber(text, 1).v
    ELSE -1

\* a string: the quote, then the content
parseString(text, i) == [v |-> text[i + 1], i |-> i + 2]

\* { x: number y: number }
parsePoint(text, i) ==
    Then(parseNumber(text, i + 2), LAMBDA x :
    Then(parseNumber(text, x.i + 1), LAMBDA y :
    [v |-> Pt(x.v, y.v), i |-> y.i + 1]))

RECURSIVE parsePointList(_, _, _)
parsePointList(text, i, read) ==
    IF text[i] = "]" THEN [v |-> read, i |-> i + 1]
    ELSE Then(parsePoint(text, i), LAMBDA point :
            parsePointList(text, point.i, Append(read, point.v)))

parsePoints(text, i) == parsePointList(text, i + 1, << >>)

\* { id: "arrow-number points: [...] color: string thickness: number }
parseArrow(text, i) ==
    Then(parseNumber(text, i + 3), LAMBDA id :
    Then(parsePoints(text, id.i + 1), LAMBDA points :
    Then(parseString(text, points.i + 1), LAMBDA color :
    Then(parseNumber(text, color.i + 1), LAMBDA thickness :
    [v |-> [id |-> id.v, points |-> points.v, color |-> color.v,
            thickness |-> thickness.v],
     i |-> thickness.i + 1]))))

RECURSIVE parseArrowList(_, _, _)
parseArrowList(text, i, read) ==
    IF text[i] = "]" THEN [v |-> read, i |-> i + 1]
    ELSE Then(parseArrow(text, i), LAMBDA arrow :
            parseArrowList(text, arrow.i, Append(read, arrow.v)))

\* a row of tiles: null or a string
RECURSIVE parseRow(_, _, _)
parseRow(text, i, read) ==
    IF text[i] = "]" THEN [v |-> read, i |-> i + 1]
    ELSE IF text[i] = "null" THEN parseRow(text, i + 1, Append(read, NoTile))
    ELSE Then(parseString(text, i), LAMBDA tile :
            parseRow(text, tile.i, Append(read, tile.v)))

RECURSIVE parseRows(_, _, _)
parseRows(text, i, read) ==
    IF text[i] = "]" THEN [v |-> read, i |-> i + 1]
    ELSE Then(parseRow(text, i + 1, << >>), LAMBDA row :
            parseRows(text, row.i, Append(read, row.v)))

\* JSON.parse of the text of a map
parse(text) ==
    Then(parseNumber(text, 4), LAMBDA id :
    Then(parseString(text, id.i + 1), LAMBDA name :
    Then(parseNumber(text, name.i + 1), LAMBDA width :
    Then(parseNumber(text, width.i + 1), LAMBDA height :
    Then(parseNumber(text, height.i + 2), LAMBDA mapIdRead :
    Then(parseRows(text, mapIdRead.i + 8, << >>), LAMBDA rows :
    Then(parseArrowList(text, rows.i + 7, << >>), LAMBDA arrowsRead :
    Then(parsePoints(text, arrowsRead.i + 3), LAMBDA pathsRead :
    [mapId |-> mapIdRead.v,
     name |-> name.v,
     width |-> width.v,
     height |-> height.v,
     tiles |-> [c \in (0 .. width.v - 1) \X (0 .. height.v - 1) |->
                   rows.v[c[2] + 1][c[1] + 1]],
     arrows |-> arrowsRead.v,
     paths |-> pathsRead.v]))))))))

\* the session as handleConfirmSave and autoSave write it: mapData with the paths
SessionMap(name, id) ==
    [mapId |-> id, name |-> name, width |-> mapWidth, height |-> mapHeight,
     tiles |-> mapTiles, arrows |-> arrows, paths |-> paths]

---------------------------------------------------------------------------
(* MapEditor saving and loading *)

SaveTitles == {"New Map", "Dungeon"}                         \* the title field
SaveMapIdInputs == {<< >>, <<"7">>, NumberText(MaxMapId)}    \* the map id field
GeneratedMapIds == {MinMapId}                                \* generateMapId()

\* JSON.parse(localStorage.getItem('wizardry-maps') || '[]')
storedMaps == [k \in 1 .. Len(wizardryMaps) |-> parse(wizardryMaps[k])]

\* MapEditor savedMaps, the maps listed by the open dialog: set from
\* localStorage when a dialog opens and read only while it is open, when
\* 'wizardry-maps' is not written
savedMaps == storedMaps

\* maps.findIndex(map => map.mapId === id), 0 when there is none
FindMapIndex(maps, id) ==
    IF \E k \in 1 .. Len(maps) : maps[k].mapId = id
    THEN CHOOSE k \in 1 .. Len(maps) :
            /\ maps[k].mapId = id
            /\ \A j \in 1 .. k - 1 : maps[j].mapId # id
    ELSE 0

\* savedMaps[existingIndex] = mapToSave, or savedMaps.push(mapToSave)
PutMap(maps, existingIndex, mapToSave) ==
    IF existingIndex > 0 THEN [maps EXCEPT ![existingIndex] = mapToSave]
    ELSE Append(maps, mapToSave)

\* localStorage.setItem('wizardry-maps', JSON.stringify(maps))
MapsText(maps) == [k \in 1 .. Len(maps) |-> stringify(maps[k])]

\* the value of hasUnsavedChanges once the effects of a render have run: the
\* change-tracking effect sets it when mapData or paths is a new value
changeTracking(flag, changed) == IF changed THEN TRUE ELSE flag

\* handleSaveMap(): the "Save Map" button reads the maps and opens the save dialog
handleSaveMap ==
    /\ dialog = "none"
    /\ dialog' = "save"
    /\ UNCHANGED <<sizeVars, mapTiles, arrows, paths, editorVars, arrowVars, dragVars, probe,
                   mapName, mapId, hasUnsavedChanges, elapsed, wizardryMaps, autoSaveItem>>

\* handleConfirmSave(), with the content of the title and map id fields and
\* the number generateMapId() would give
handleConfirmSave(saveTitle, saveMapId, generated) ==
    LET numId == parseInt(saveMapId)
        finalMapId == IF saveMapId # << >>
                      THEN IF numId >= MinMapId /\ numId <= MaxMapId THEN numId ELSE generated
                      ELSE generated
        mapToSave == SessionMap(saveTitle, finalMapId)
    IN  /\ dialog = "save"
        /\ \E maps \in {storedMaps} :
              \E newMaps \in {PutMap(maps, FindMapIndex(maps, finalMapId), mapToSave)} :
                  /\ Len(newMaps) <= MaxStoredMaps
                  /\ wizardryMaps' = MapsText(newMaps)
        /\ mapName' = saveTitle
        /\ mapId' = finalMapId
        /\ dialog' = "none"
        /\ hasUnsavedChanges' = changeTracking(FALSE, TRUE)
        /\ elapsed' = 0
        /\ UNCHANGED <<sizeVars, mapTiles, arrows, paths, editorVars, arrowVars, dragVars, probe,
                       autoSaveItem>>

\* handleOverwriteMap(existingMap), existingMap the k-th map of the save dialog
handleOverwriteMap(k) ==
    /\ dialog = "save"
    /\ k \in 1 .. Len(wizardryMaps)
    /\ \E existingMap \in {savedMaps[k]} : \E maps \in {storedMaps} :
          \E existingIndex \in {FindMapIndex(maps, existingMap.mapId)} :
              IF existingIndex > 0
              THEN /\ wizardryMaps' =
                        MapsText([maps EXCEPT ![existingIndex] =
                                     SessionMap(existingMap.name, existingMap.mapId)])
                   /\ mapName' = existingMap.name
                   /\ mapId' = existingMap.mapId
                   /\ dialog' = "none"
                   /\ hasUnsavedChanges' = changeTracking(FALSE, TRUE)
                   /\ elapsed' = 0
              ELSE UNCHANGED <<wizardryMaps, mapName, mapId, dialog, hasUnsavedChanges, elapsed>>
    /\ UNCHANGED <<sizeVars, mapTiles, arrows, paths, editorVars, arrowVars, dragVars, probe,
                   autoSaveItem>>

\* the "Load Map" button reads the maps and opens the load dialog
showLoadDialog ==
    /\ dialog = "none"
    /\ dialog' = "load"
    /\ UNCHANGED <<sizeVars, mapTiles, arrows, paths, editorVars, arrowVars, dragVars, probe,
                   mapName, mapId, hasUnsavedChanges, elapsed, wizardryMaps, autoSaveItem>>

\* variant of handleLoadMap that takes an empty paths array for a missing one
handleLoadMapKeepingPaths(k) ==
    /\ dialog = "load"
    /\ k \in 1 .. Len(wizardryMaps)
    /\ \E map \in {savedMaps[k]} :
        /\ mapId' = map.mapId
        /\ mapName' = map.name
        /\ mapWidth' = map.width
        /\ mapHeight' = map.height
        /\ mapTiles' = map.tiles
        /\ arrows' = map.arrows
        /\ paths' = IF map.paths # << >> THEN map.paths ELSE paths
        /\ appMode' = "comment"
        /\ selectedTile' = NoTile
        /\ dialog' = "none"
        /\ hasUnsavedChanges' = changeTracking(FALSE, TRUE)
        /\ elapsed' = 0
        /\ UNCHANGED <<drawingMode, placeOnPathOnly, arrowVars, dragVars, probe,
                       wizardryMaps, autoSaveItem>>
        /\ WithinBounds

\* handleLoadMap(map), map the k-th map of the load dialog.  The maps of the
\* dialog have a comment layer and a paths array (an array is truthy, empty or not).
handleLoadMap(k) ==
    /\ dialog = "load"
    /\ k \in 1 .. Len(wizardryMaps)
    /\ \E map \in {savedMaps[k]} :
        /\ mapId' = map.mapId
        /\ mapName' = map.name
        /\ mapWidth' = map.width
        /\ mapHeight' = map.height
        /\ mapTiles' = map.tiles
        /\ arrows' = map.arrows
        /\ paths' = map.paths
        /\ appMode' = "comment"
        /\ selectedTile' = NoTile
        /\ dialog' = "none"
        /\ hasUnsavedChanges' = changeTracking(FALSE, TRUE)
        /\ elapsed' = 0
        /\ UNCHANGED <<drawingMode, placeOnPathOnly, arrowVars, dragVars, probe,
                       wizardryMaps, autoSaveItem>>
        /\ WithinBounds

\* the Cancel button of the open dialog
closeDialog ==
    /\ dialog # "none"
    /\ dialog' = "none"
    /\ UNCHANGED <<sizeVars, mapTiles, arrows, paths, editorVars, arrowVars, dragVars, probe,
                   mapName, mapId, hasUnsavedChanges, elapsed, wizardryMaps, autoSaveItem>>

\* autoSave()
autoSave ==
    IF ~hasUnsavedChanges \/ mapName = "" \/ mapName = "New Map"
    THEN UNCHANGED autoSaveItem
    ELSE autoSaveItem' = stringify(SessionMap(mapName, mapId))

\* the auto-save interval: time passes, and when the interval set by the last
\* run of the effect is over, autoSave() is called and the interval starts again
autoSaveInterval ==
    /\ IF elapsed + 1 < TicksPerInterval
       THEN elapsed' = elapsed + 1 /\ UNCHANGED autoSaveItem
       ELSE elapsed' = 0 /\ autoSave
    /\ UNCHANGED <<sizeVars, mapTiles, arrows, paths, editorVars, arrowVars, dragVars, probe,
                   mapName, mapId, hasUnsavedChanges, wizardryMaps, dialog>>

---------------------------------------------------------------------------
(* Specifications *)

\* the whole editor, on a map of one row of ArrowBlocks blocks
Next ==
    \/ \E p \in ClickPos : handleMouseDown(0, p)
    \/ \E p \in ClickPos : handleMouseDown(2, p)
    \/ \E p \in ClickPos : handleMouseMove(p)
    \/ handleMouseUp
    \/ handleMouseLeave
    \/ \E t \in TileIds : handleTileSelect(t)
    \/ \E tab \in {"edit", "comment"} : handleTabSwitch(tab)
    \/ setDrawingModeTile
    \/ setDrawingModePath
    \/ \E b \in BOOLEAN : setPlaceOnPathOnly(b)
    \/ \E c \in ArrowColors : setSelectedArrowColor(c)
    \/ clearAllArrows
    \/ handleGlobalRightClick

Spec == Init /\ [][Next]_vars

\* an editing session on the edit tab (tiles and paths), on a map of one row
\* of EditBlocks blocks
InitEdit ==
    /\ InitEditor(BlockSize * EditBlocks, BlockSize)
    /\ probe = NoProbe

NextEdit ==
    \/ \E p \in ClickPos : handleMouseDown(0, p)
    \/ \E p \in ClickPos : handleMouseDown(2, p)
    \/ \E p \in ClickPos : handleMouseMove(p)
    \/ handleMouseUp
    \/ \E t \in TileIds : handleTileSelect(t)
    \/ setDrawingModeTile
    \/ setDrawingModePath
    \/ \E b \in BOOLEAN : setPlaceOnPathOnly(b)

SpecEdit == InitEdit /\ [][NextEdit]_vars

\* the classifiers queried at every fine cell of the default 81 x 81 map
InitClassify ==
    /\ InitEditor(BlockSize, BlockSize)
    /\ probe \in {[NoProbe EXCEPT !.x = x, !.y = y] :
                      x \in 0 .. DefaultMapSize - 1, y \in 0 .. DefaultMapSize - 1}

NextClassify ==
    \/ Classify
    \/ \E t \in TileIds : handleTileSelect(t)

SpecClassify == InitClassify /\ [][NextClassify]_vars

\* a comment session: two blocks at the ends of the row were drawn as paths
\* (the blocks between them are not on a path), then the comment tab was opened;
\* the canvas is clicked on the comment tab only, with the arrow colour picked
\* beforehand.  The clicks go to the CENTER, two EDGE cells and a CORNER of
\* the first block, the CENTER and an EDGE cell of the last block, the CENTER
\* of the block after the first (on no path) and a position left of the map.
ArrowTouchPos ==
    {Pt(1, 1), Pt(1, 0), Pt(0, 1), Pt(0, 0),
     Pt(BlockSize * (ArrowBlocks - 1) + 1, 1), Pt(BlockSize * (ArrowBlocks - 1) + 1, 0),
     Pt(BlockSize + 1, 1), Pt(-1, 1)}

InitArrow ==
    /\ mapWidth = BlockSize * ArrowBlocks
    /\ mapHeight = BlockSize
    /\ mapTiles = [c \in (0 .. BlockSize * ArrowBlocks - 1) \X (0 .. BlockSize - 1) |-> NoTile]
    /\ arrows = << >>
    /\ paths = <<Pt(0, 0), Pt(ArrowBlocks - 1, 0)>>
    /\ selectedTile = NoTile
    /\ drawingMode = "path"
    /\ placeOnPathOnly = TRUE
    /\ appMode = "comment"
    /\ isDrawingArrow = FALSE
    /\ currentArrowPoints = << >>
    /\ selectedArrowColor \in ArrowColors
    /\ isDrawing = FALSE
    /\ isErasing = FALSE
    /\ processedCells = {}
    /\ InitStore
    /\ probe = NoProbe

NextArrow ==
    \/ \E p \in ArrowTouchPos : appMode = "comment" /\ handleMouseDown(0, p)
    \/ \E p \in ArrowTouchPos : appMode = "comment" /\ handleMouseDown(2, p)
    \/ \E tab \in {"edit", "comment"} : handleTabSwitch(tab)
    \/ clearAllArrows

SpecArrow == InitArrow /\ [][NextArrow]_vars

\* a session that edits and annotates in turn: both tabs, the canvas pressed
\* at a few cells of the first block (its CENTER, three EDGE cells, a CORNER)
TouchPos == {Pt(1, 1), Pt(1, 0), Pt(2, 1), Pt(1, 2), Pt(0, 0)}

NextMixed ==
    \/ \E p \in TouchPos : handleMouseDown(0, p)
    \/ \E p \in TouchPos : handleMouseDown(2, p)
    \/ handleMouseUp
    \/ \E tab \in {"edit", "comment"} : handleTabSwitch(tab)
    \/ \E t \in TileIds : handleTileSelect(t)
    \/ setDrawingModePath
    \/ clearAllArrows

SpecMixed == InitEdit /\ [][NextMixed]_vars

\* a session with drags: the canvas is pressed and the pointer moved over the
\* cells of TouchPos, the button released, and the tabs and the mode buttons
\* operated in between (from the keyboard while a button is held)
NextDrag ==
    \/ \E p \in TouchPos : handleMouseDown(0, p)
    \/ \E p \in TouchPos : handleMouseDown(2, p)
    \/ \E p \in TouchPos : handleMouseMove(p)
    \/ handleMouseUp
    \/ \E tab \in {"edit", "comment"} : handleTabSwitch(tab)
    \/ \E t \in TileIds : handleTileSelect(t)
    \/ setDrawingModeTile
    \/ setDrawingModePath

SpecDrag == InitEdit /\ [][NextDrag]_vars

\* a session with saving and loading on the map of one block: while no dialog
\* is open the canvas is pressed at the CENTER and at the top EDGE of the block
\* (the left button on both tabs, the right button on the comment tab); maps are
\* saved under the title "Dungeon" with the map id field empty or out of range
StorePos == {Pt(1, 1), Pt(1, 0)}

NextStore ==
    \/ \E p \in StorePos : dialog = "none" /\ handleMouseDown(0, p)
    \/ \E p \in StorePos : dialog = "none" /\ appMode = "comment" /\ handleMouseDown(2, p)
    \/ \E tab \in {"edit", "comment"} : dialog = "none" /\ handleTabSwitch(tab)
    \/ dialog = "none" /\ setDrawingModePath
    \/ handleSaveMap
    \/ \E saveMapId \in {<< >>, <<"7">>} :
          \E generated \in GeneratedMapIds : handleConfirmSave("Dungeon", saveMapId, generated)
    \/ \E k \in 1 .. MaxStoredMaps : handleOverwriteMap(k)
    \/ showLoadDialog
    \/ \E k \in 1 .. MaxStoredMaps : handleLoadMap(k)
    \/ closeDialog

SpecStore == InitEdit /\ [][NextStore]_vars

\* a session with the clock running: paths are drawn and erased at the CENTER
\* of the block, the map is saved under a title, and time passes
NextAutoSave ==
    \/ dialog = "none" /\ handleMouseDown(0, Pt(1, 1))
    \/ dialog = "none" /\ handleMouseDown(2, Pt(1, 1))
    \/ dialog = "none" /\ handleMouseUp
    \/ dialog = "none" /\ setDrawingModePath
    \/ handleSaveMap
    \/ \E saveTitle \in SaveTitles : \E saveMapId \in SaveMapIdInputs :
          \E generated \in GeneratedMapIds : handleConfirmSave(saveTitle, saveMapId, generated)
    \/ autoSaveInterval

\* time does not stop
SpecAutoSave == InitEdit /\ [][NextAutoSave]_vars /\ WF_vars(autoSaveInterval)

\* a path session: the Path button was pressed on a map of two rows of
\* PathBlocks blocks; the canvas is pressed and dragged at the block centres
CentrePos == {Pt(BlockSize * bx + 1, BlockSize * by + 1) :
                 bx \in 0 .. PathBlocks - 1, by \in 0 .. 1}

InitPath ==
    /\ mapWidth = BlockSize * PathBlocks
    /\ mapHeight = BlockSize * 2
    /\ mapTiles = [c \in (0 .. BlockSize * PathBlocks - 1) \X (0 .. BlockSize * 2 - 1)
                     |-> NoTile]
    /\ arrows = << >>
    /\ paths = << >>
    /\ selectedTile = NoTile
    /\ drawingMode = "path"
    /\ placeOnPathOnly = TRUE
    /\ appMode = "edit"
    /\ isDrawingArrow = FALSE
    /\ currentArrowPoints = << >>
    /\ selectedArrowColor = "#ff0000"
    /\ isDrawing = FALSE
    /\ isErasing = FALSE
    /\ processedCells = {}
    /\ InitStore
    /\ probe = NoProbe

NextPath ==
    \/ \E p \in CentrePos : handleMouseDown(0, p)
    \/ \E p \in CentrePos : handleMouseDown(2, p)
    \/ \E p \in CentrePos : handleMouseMove(p)
    \/ handleMouseUp

SpecPath == InitPath /\ [][NextPath]_vars

\* the arrow offsets of every collection of up to MaxOffsetArrows arrows that
\* the comment tab can have stored on a row of two path blocks: arrows of 2 or
\* 3 points among three anchors, each segment accepted by isStraightLine; the
\* collection is then thinned out by right presses and Clear All
OffsetAnchors == {Pt(1, 0), Pt(1, 1), Pt(4, 1)}

OffsetPointSeqs ==
    {ps \in UNION {[1 .. n -> OffsetAnchors] : n \in 2 .. 3} :
        \A k \in 1 .. Len(ps) - 1 : isStraightLine(ps[k], ps[k + 1])}

OffsetCollections ==
    {[n \in 1 .. Len(c) |-> [id |-> n, points |-> c[n], color |-> "#ff0000",
                             thickness |-> ArrowThickness]] :
        c \in UNION {[1 .. n -> OffsetPointSeqs] : n \in 0 .. MaxOffsetArrows}}

InitOffsets ==
    /\ mapWidth = BlockSize * 2
    /\ mapHeight = BlockSize
    /\ mapTiles = [c \in (0 .. BlockSize * 2 - 1) \X (0 .. BlockSize - 1) |-> NoTile]
    /\ arrows \in OffsetCollections
    /\ paths = <<Pt(0, 0), Pt(1, 0)>>
    /\ selectedTile = NoTile
    /\ drawingMode = "path"
    /\ placeOnPathOnly = TRUE
    /\ appMode = "comment"
    /\ isDrawingArrow = FALSE
    /\ currentArrowPoints = << >>
    /\ selectedArrowColor = "#ff0000"
    /\ isDrawing = FALSE
    /\ isErasing = FALSE
    /\ processedCells = {}
    /\ InitStore
    /\ probe = NoProbe

NextOffsets ==
    \/ \E p \in OffsetAnchors : handleMouseDown(2, p)
    \/ clearAllArrows

SpecOffsets == InitOffsets /\ [][NextOffsets]_vars

---------------------------------------------------------------------------
(* Vocabulary of the properties: the sub-position classes of a fine cell   *)
(* and the requests the handlers make                                      *)

SubX(p) == p.x % BlockSize
SubY(p) == p.y % BlockSize
IsCorner(p) == SubX(p) \in {0, 2} /\ SubY(p) \in {0, 2}
IsCenter(p) == SubX(p) = 1 /\ SubY(p) = 1
IsEdge(p) == (SubX(p) = 1 /\ SubY(p) \in {0, 2}) \/ (SubY(p) = 1 /\ SubX(p) \in {0, 2})

InMap(p) == p.x \in 0 .. mapWidth - 1 /\ p.y \in 0 .. mapHeight - 1
Logical(p) == Pt(p.x \div BlockSize, p.y \div BlockSize)
BlockOrigin(p) == Pt((p.x \div BlockSize) * BlockSize, (p.y \div BlockSize) * BlockSize)
BlockCenter(p) == Pt(BlockOrigin(p).x + 1, BlockOrigin(p).y + 1)
BlockTopEdge(p) == Pt(BlockOrigin(p).x + 1, BlockOrigin(p).y)
PathSet == {paths[i] : i \in 1 .. Len(paths)}
OnPath(p) == Logical(p) \in PathSet
TileAt(p) == mapTiles[<<p.x, p.y>>]
WithTile(p, t) == [mapTiles EXCEPT ![<<p.x, p.y>>] = t]

\* a tile-placement request at p: a left press, or a left drag, on the edit tab
\* in tile mode with a tile selected
PlaceTileRequest(p) ==
    /\ appMode = "edit" /\ drawingMode = "tile" /\ selectedTile # NoTile
    /\ \/ handleMouseDown(0, p)
       \/ isDrawing /\ ~isErasing /\ handleMouseMove(p)

\* a path-add request at p: a left press, or a left drag, on the edit tab in path mode
AddPathRequest(p) ==
    /\ appMode = "edit" /\ drawingMode = "path"
    /\ \/ handleMouseDown(0, p)
       \/ isDrawing /\ ~isErasing /\ handleMouseMove(p)

\* a path-remove request at p: a right press, or a right drag, in path mode
RemovePathRequest(p) ==
    /\ appMode = "edit" /\ drawingMode = "path"
    /\ \/ handleMouseDown(2, p)
       \/ isErasing /\ ~isDrawing /\ handleMouseMove(p)

\* a tile-remove request at p: a right press, or a right drag, in tile mode
RemoveTileRequest(p) ==
    /\ appMode = "edit" /\ drawingMode = "tile"
    /\ \/ handleMouseDown(2, p)
       \/ isErasing /\ ~isDrawing /\ handleMouseMove(p)

\* a right press at p on the comment tab
ArrowRightClick(p) == appMode = "comment" /\ handleMouseDown(2, p)

\* s is t with some elements left out, the others in their order
RECURSIVE IsSubsequence(_, _)
IsSubsequence(s, t) ==
    IF s = << >> THEN TRUE
    ELSE IF t = << >> THEN FALSE
    ELSE IF Head(s) = Head(t) THEN IsSubsequence(Tail(s), Tail(t))
    ELSE IsSubsequence(s, Tail(t))

\* the neighbour of a block in a direction: top = y-1, right = x+1,
\* bottom = y+1, left = x-1
Neighbour(c, side) ==
    IF side = "top" THEN Pt(c.x, c.y - 1)
    ELSE IF side = "right" THEN Pt(c.x + 1, c.y)
    ELSE IF side = "bottom" THEN Pt(c.x, c.y + 1)
    ELSE Pt(c.x - 1, c.y)
Opposite(side) ==
    IF side = "top" THEN "bottom"
    ELSE IF side = "right" THEN "left"
    ELSE IF side = "bottom" THEN "top"
    ELSE "right"
Walled(c, side) == <<c, side>> \in drawPathWalls

\* the offsets drawn with the stored arrows, the sign of a number, and whether
\* point k of the arrow at index i (both from 0) is near a point of an arrow
\* of a lower index
Offsets == calculateArrowOffsets(arrows)
Sgn(a) == IF a > 0 THEN 1 ELSE IF a < 0 THEN -1 ELSE 0
NearEarlierArrow(i, k) ==
    \E j \in 0 .. i - 1 : \E q \in 1 .. Len(arrows[j + 1].points) :
        LET a == arrows[j + 1].points[q]
            b == arrows[i + 1].points[k + 1]
        IN  Abs(a.x - b.x) <= 1 /\ Abs(a.y - b.y) <= 1

\* the path-confinement gate lets a placement at p through
GateOpen(p) == ~placeOnPathOnly \/ OnPath(p)

\* arrow drawing: a left click at p on the comment tab, the two states of the
\* arrow validator, a valid anchor, an axis-aligned segment, and room for one
\* more point under the bound of the model
ArrowClick(p) == appMode = "comment" /\ handleMouseDown(0, p)
Idle == ~isDrawingArrow
Drawing == isDrawingArrow /\ Len(currentArrowPoints) > 0
LastPoint == currentArrowPoints[Len(currentArrowPoints)]
ValidAnchor(p) == OnPath(p) /\ ~IsCorner(p)
AxisAligned(l, p) == (p.x = l.x /\ p.y # l.y) \/ (p.x # l.x /\ p.y = l.y)
PointRoom == Len(currentArrowPoints) + StoredPoints(arrows) < MaxArrowPoints

---------------------------------------------------------------------------
(* Properties *)

\* the fine cells an arrow lies on: its points and the cells of the segments
\* between consecutive points
Between(a, b, v) == (a <= v /\ v <= b) \/ (b <= v /\ v <= a)
OnSegment(a, b, c) == Between(a.x, b.x, c.x) /\ Between(a.y, b.y, c.y)
OnArrow(arrow, c) ==
    \/ \E k \in 1 .. Len(arrow.points) : arrow.points[k] = c
    \/ \E k \in 1 .. Len(arrow.points) - 1 : OnSegment(arrow.points[k], arrow.points[k + 1], c)
HasArrowId(as, id) == \E j \in 1 .. Len(as) : as[j].id = id

\* arrow has a point at Manhattan distance at most 1 from p
PointNear(arrow, p) ==
    \E k \in 1 .. Len(arrow.points) :
        Abs(arrow.points[k].x - p.x) + Abs(arrow.points[k].y - p.y) <= 1

\* C1: a tile-placement request (normal or edge-class tile, confinement on or
\* off) or a path-add request at an in-range CORNER cell changes neither the
\* tile grid nor the paths.
C1_CornerRequestsIllegal ==
    [][\A p \in ClickPos :
          (InMap(p) /\ IsCorner(p) /\ (PlaceTileRequest(p) \/ AddPathRequest(p)))
             => (mapTiles' = mapTiles /\ paths' = paths)]_vars

\* C2: every cell holding a normal tile is a CENTER cell and every cell holding
\* an edge-class tile is an EDGE cell; no CORNER cell holds a tile.
C2_TilesOnTheirClass ==
    \A c \in Cells :
        mapTiles[c] # NoTile =>
            /\ ~IsCorner(Pt(c[1], c[2]))
            /\ IF isEdgeTile(mapTiles[c]) THEN IsEdge(Pt(c[1], c[2]))
                                          ELSE IsCenter(Pt(c[1], c[2]))

\* C2 witness: an edge-class tile lies on an EDGE cell of a block that is on a path
C2_Witness ==
    \E c \in Cells :
        /\ mapTiles[c] # NoTile /\ isEdgeTile(mapTiles[c]) /\ IsEdge(Pt(c[1], c[2]))
        /\ OnPath(Pt(c[1], c[2]))

\* C3: a normal-tile placement request at an in-range non-corner cell that the
\* confinement gate lets through writes the tile at blockOrigin + (1,1) and
\* changes no other cell.
C3_NormalTileGoesToCenter ==
    [][\A p \in ClickPos :
          (InMap(p) /\ ~IsCorner(p) /\ selectedTile # NoTile /\ ~isEdgeTile(selectedTile)
             /\ GateOpen(p) /\ PlaceTileRequest(p))
             => mapTiles' = WithTile(BlockCenter(p), selectedTile)]_vars

\* C3 witness: a normal tile was placed: it lies on the CENTER of a block
\* while the left button is still down
C3_Witness ==
    \E c \in Cells :
        /\ mapTiles[c] # NoTile /\ ~isEdgeTile(mapTiles[c])
        /\ isDrawing /\ selectedTile = mapTiles[c]

\* C4: an edge-class placement request at an EDGE cell changes that cell only,
\* one at a CENTER cell changes the block's top edge blockOrigin + (1,0) only;
\* the cell is written whenever the confinement gate lets the request through.
C4_EdgeTileTarget ==
    [][\A p \in ClickPos :
          (InMap(p) /\ (IsEdge(p) \/ IsCenter(p)) /\ selectedTile # NoTile
             /\ isEdgeTile(selectedTile) /\ PlaceTileRequest(p))
             => LET target == IF IsEdge(p) THEN p ELSE BlockTopEdge(p)
                IN  /\ mapTiles' \in {mapTiles, WithTile(target, selectedTile)}
                    /\ GateOpen(p) => mapTiles' = WithTile(target, selectedTile)]_vars

\* C4 witness: an edge-class tile lies on a bottom, left or right edge, which
\* only a request at that very cell can have written
C4_Witness ==
    \E c \in Cells :
        /\ mapTiles[c] # NoTile /\ isEdgeTile(mapTiles[c])
        /\ Pt(c[1], c[2]) # BlockTopEdge(Pt(c[1], c[2]))
        /\ isDrawing

\* C5: a path-add or path-remove request at an EDGE or CORNER cell leaves the
\* paths unchanged (only CENTER cells add or remove a block).
C5_PathsGatedByCenter ==
    [][\A p \in ClickPos :
          (InMap(p) /\ ~IsCenter(p) /\ (AddPathRequest(p) \/ RemovePathRequest(p)))
             => paths' = paths]_vars

C7_ClassifiersAgree ==
    probe.canvas # "none" =>
        LET p == Pt(probe.x, probe.y)
        IN  /\ Cardinality({k \in {"corner", "center", "edge"} :
                               \/ k = "corner" /\ IsCorner(p)
                               \/ k = "center" /\ IsCenter(p)
                               \/ k = "edge" /\ IsEdge(p)}) = 1
            /\ probe.canvas = probe.loader
            /\ probe.canvas = "invalid" <=> IsCorner(p)
            /\ probe.canvas = "normal" <=> IsCenter(p)
            /\ probe.canvas = "edge" <=> IsEdge(p)
            /\ probe.valid <=> ~IsCorner(p)

\* C7 witness: the last cell of the map was classified, with a door tile selected
C7_Witness ==
    /\ probe.canvas # "none"
    /\ probe.x = DefaultMapSize - 1 /\ probe.y = DefaultMapSize - 2
    /\ selectedTile = "map_door2"

\* C8: leaving the comment tab for the edit tab while an arrow is in progress
\* discards the in-progress points and ends the drawing without storing an
\* arrow (so that, back on the comment tab, the next accepted click starts a
\* new arrow).
C8_TabSwitchDiscardsArrow ==
    [][(appMode = "comment" /\ Drawing /\ handleTabSwitch("edit"))
          => (~isDrawingArrow' /\ currentArrowPoints' = << >> /\ arrows' = arrows)]_vars

\* C9: while an arrow is in progress with last point L, a left click at P on
\* the comment tab appends P and keeps the drawing going iff P is a valid
\* anchor (its block on a path, not a CORNER) and exactly one of P.x - L.x,
\* P.y - L.y is zero; otherwise the click changes nothing.  Walls, blocks off
\* the paths under the segment and the segment's length play no part.
C9_SegmentAcceptedIffAnchorAndAligned ==
    \A p \in ClickPos :
        (appMode = "comment" /\ Drawing) =>
            IF ValidAnchor(p) /\ AxisAligned(LastPoint, p)
            THEN PointRoom =>
                   ENABLED (/\ ArrowClick(p)
                            /\ currentArrowPoints' = Append(currentArrowPoints, p)
                            /\ isDrawingArrow')
            ELSE ENABLED (/\ ArrowClick(p)
                          /\ currentArrowPoints' = currentArrowPoints
                          /\ isDrawingArrow')

\* C9 witness: the arrow in progress holds a segment between the two path
\* blocks at the ends of the row, over the blocks that are on no path
C9_Witness ==
    /\ isDrawingArrow /\ Len(currentArrowPoints) >= 2
    /\ LET a == currentArrowPoints[Len(currentArrowPoints) - 1]
       IN  /\ Logical(a).x = 0 /\ Logical(LastPoint).x = ArrowBlocks - 1
           /\ \E b \in 1 .. ArrowBlocks - 2 : Pt(b, 0) \notin PathSet

\* C10: with no arrow in progress, a left click at P on the comment tab starts
\* an arrow whose points are [P] iff P is a valid anchor; otherwise the click is
\* ignored: still no arrow in progress and no points.
C10_IdleClickStartsIffAnchor ==
    \A p \in ClickPos :
        (appMode = "comment" /\ Idle) =>
            IF ValidAnchor(p)
            THEN PointRoom =>
                   ENABLED (/\ ArrowClick(p)
                            /\ isDrawingArrow'
                            /\ currentArrowPoints' = <<p>>)
            ELSE ENABLED (/\ ArrowClick(p)
                          /\ ~isDrawingArrow'
                          /\ currentArrowPoints' = << >>)

\* C10 witness: an arrow was just started on the comment tab: one point, a
\* valid anchor on an EDGE cell
C10_Witness ==
    /\ appMode = "comment" /\ isDrawingArrow /\ Len(currentArrowPoints) = 1
    /\ ValidAnchor(currentArrowPoints[1]) /\ IsEdge(currentArrowPoints[1])

\* C11: while an arrow is in progress, a proposal that is refused (a diagonal
\* move, the last point again, a point whose block is on no path, a CORNER)
\* keeps the drawing going with the same points and leaves the arrow
\* collection as it is.
C11_RejectedProposalKeepsDrawing ==
    \A p \in ClickPos :
        (/\ appMode = "comment" /\ Drawing
         /\ \/ (p.x # LastPoint.x /\ p.y # LastPoint.y)
            \/ p = LastPoint
            \/ ~OnPath(p)
            \/ IsCorner(p))
          => ENABLED (/\ ArrowClick(p)
                      /\ isDrawingArrow'
                      /\ currentArrowPoints' = currentArrowPoints
                      /\ arrows' = arrows)

\* C11 witness: an arrow is in progress next to a stored arrow, and proposals
\* of each refused kind exist: a diagonal valid anchor, the last point, an
\* in-range non-corner cell off the paths, and a corner of a path block
C11_Witness ==
    /\ appMode = "comment" /\ Drawing /\ arrows # << >>
    /\ \E p \in ClickPos : ValidAnchor(p) /\ p.x # LastPoint.x /\ p.y # LastPoint.y
    /\ \E p \in ClickPos : InMap(p) /\ ~IsCorner(p) /\ ~OnPath(p)
    /\ \E p \in ClickPos : OnPath(p) /\ IsCorner(p)

\* C12: a right press while an arrow of n >= 2 points is in progress appends
\* exactly one arrow at the end of the collection: its points are the accepted
\* points in drawing order, its colour the selected colour, its thickness 10;
\* afterwards no arrow is in progress and there are no points.
C12_FinalizeAppendsOneArrow ==
    \A p \in ClickPos :
        (appMode = "comment" /\ Drawing /\ Len(currentArrowPoints) >= 2)
          => ENABLED (/\ ArrowRightClick(p)
                      /\ Len(arrows') = Len(arrows) + 1
                      /\ SubSeq(arrows', 1, Len(arrows)) = arrows
                      /\ arrows'[Len(arrows')].points = currentArrowPoints
                      /\ arrows'[Len(arrows')].color = selectedArrowColor
                      /\ arrows'[Len(arrows')].thickness = 10
                      /\ ~isDrawingArrow'
                      /\ currentArrowPoints' = << >>)

\* C12 witness: in the blue colour, an arrow of two points was finished: it is
\* the last of the collection and no arrow is in progress
C12_Witness ==
    /\ appMode = "comment" /\ Idle /\ currentArrowPoints = << >>
    /\ selectedArrowColor = "#0000ff"
    /\ arrows # << >>
    /\ Len(arrows[Len(arrows)].points) = 2
    /\ arrows[Len(arrows)].color = "#0000ff"

\* C13: a right press while an arrow of exactly one point is in progress
\* stores no arrow; the point is dropped and no arrow is in progress.
C13_FinalizeOnePointEmitsNothing ==
    \A p \in ClickPos :
        (appMode = "comment" /\ Drawing /\ Len(currentArrowPoints) = 1)
          => ENABLED (/\ ArrowRightClick(p)
                      /\ arrows' = arrows
                      /\ ~isDrawingArrow'
                      /\ currentArrowPoints' = << >>)

\* C13 witness: an arrow of one point is in progress while the collection
\* already holds an arrow
C13_Witness ==
    /\ appMode = "comment" /\ isDrawingArrow /\ Len(currentArrowPoints) = 1
    /\ arrows # << >>

\* C14: every stored arrow has at least 2 points, and consecutive points differ
\* in exactly one axis (no diagonal, no zero-length segment).
C14_StoredArrowsAxisAligned ==
    \A i \in 1 .. Len(arrows) :
        /\ Len(arrows[i].points) >= 2
        /\ \A k \in 1 .. Len(arrows[i].points) - 1 :
              AxisAligned(arrows[i].points[k], arrows[i].points[k + 1])

\* C14 witness: a stored arrow with a corner: a horizontal and a vertical segment
C14_Witness ==
    \E i \in 1 .. Len(arrows) :
        /\ Len(arrows[i].points) >= 3
        /\ \E k \in 1 .. Len(arrows[i].points) - 2 :
              /\ arrows[i].points[k].y = arrows[i].points[k + 1].y
              /\ arrows[i].points[k + 1].x = arrows[i].points[k + 2].x

\* C15: the drawing flag is set iff there are points in progress (at most one
\* arrow in progress: absent, or a non-empty sequence).
C15_FlagIffPoints ==
    isDrawingArrow <=> currentArrowPoints # << >>

\* C15 witness: after an arrow was stored, another one is in progress
C15_Witness ==
    /\ isDrawingArrow /\ currentArrowPoints # << >>
    /\ arrows # << >> /\ appMode = "comment"
    /\ IsCenter(currentArrowPoints[1])

C17_WallIffNoNeighbour ==
    /\ \A c \in PathSet : \A side \in Directions :
          /\ Walled(c, side) <=> Neighbour(c, side) \notin PathSet
          /\ Neighbour(c, side) \in PathSet =>
                ~Walled(c, side) /\ ~Walled(Neighbour(c, side), Opposite(side))
    /\ \A w \in drawPathWalls : w[1] \in PathSet

\* C17 witness: three blocks on the paths around a corner, a vertical and a
\* horizontal pair of neighbours
C17_Witness ==
    \E a \in PathSet :
        /\ Neighbour(a, "bottom") \in PathSet
        /\ Neighbour(a, "right") \in PathSet
        /\ Walled(a, "top") /\ Walled(a, "left")

\* C18: a repeated request has no second effect: the paths never hold a block
\* twice; after an add-path request at a cell, adding there again leaves the
\* paths as they are, likewise after a remove-path request, and after a
\* place-tile request placing the same tile at the same cell again leaves the
\* grid as it is.
C18_RepeatedRequestNoDoubleEffect ==
    /\ \A i, j \in 1 .. Len(paths) : paths[i] = paths[j] => i = j
    /\ \A p \in ClickPos :
          /\ ~ENABLED (AddPathRequest(p) /\ (addPathPoint(p, TRUE, {}))' # paths')
          /\ ~ENABLED (RemovePathRequest(p) /\ (removePathPoint(p))' # paths')
          /\ ~ENABLED (PlaceTileRequest(p) /\ (placeTile(p))' # mapTiles')

\* C18 witness: a block is on the paths and a tile lies on it, the left
\* button down
C18_Witness ==
    /\ Len(paths) >= 1 /\ isDrawing /\ selectedTile # NoTile /\ appMode = "edit"
    /\ \E c \in Cells : mapTiles[c] = selectedTile /\ OnPath(Pt(c[1], c[2]))

\* C19: the offset of arrow i (index from 0) at point k > 0 is non-zero iff an
\* arrow of a lower index has a point within Chebyshev distance 1 of point k;
\* it is then the unit perpendicular (-dy, dx) / length of the segment from
\* point k-1 to point k, times 12, times side * (floor(i/2) + 1), side +1 for
\* even i and -1 for odd i: (0, +-12 m) on a horizontal segment, (+-12 m, 0) on
\* a vertical one; otherwise it is (0,0).
C19_OffsetIffNearEarlierArrow ==
    \A i \in 0 .. Len(arrows) - 1 : \A k \in 1 .. Len(arrows[i + 1].points) - 1 :
        LET off == Offsets[arrows[i + 1].id][k + 1]
            dx == arrows[i + 1].points[k + 1].x - arrows[i + 1].points[k].x
            dy == arrows[i + 1].points[k + 1].y - arrows[i + 1].points[k].y
            side == IF i % 2 = 0 THEN 1 ELSE -1
            m == (i \div 2) + 1
        IN  /\ off # Pt(0, 0) <=> NearEarlierArrow(i, k)
            /\ NearEarlierArrow(i, k) =>
                  /\ off = Pt(-Sgn(dy) * 12 * side * m, Sgn(dx) * 12 * side * m)
                  /\ off \in {Pt(0, 12 * m), Pt(0, -12 * m), Pt(12 * m, 0), Pt(-12 * m, 0)}

\* C19 witness: three arrows; the third one is pushed two steps at its second
\* point, and the second one has a point away from the first arrow
C19_Witness ==
    /\ Len(arrows) = 3
    /\ NearEarlierArrow(2, 1)
    /\ Offsets[arrows[3].id][2] \in {Pt(0, 24), Pt(0, -24), Pt(24, 0), Pt(-24, 0)}
    /\ ~NearEarlierArrow(1, 1)

\* C20: the offsets hold one entry per arrow and, for each arrow, one offset
\* per point; the offset of the first point is (0,0) whatever arrows lie near it.
C20_OneOffsetPerPointFirstZero ==
    /\ DOMAIN Offsets = {arrows[n].id : n \in 1 .. Len(arrows)}
    /\ \A n \in 1 .. Len(arrows) :
          /\ DOMAIN Offsets[arrows[n].id] = 1 .. Len(arrows[n].points)
          /\ Offsets[arrows[n].id][1] = Pt(0, 0)

\* C20 witness: the first point of the second arrow lies on a point of the
\* first arrow, and its second point is pushed aside
C20_Witness ==
    /\ Len(arrows) >= 2
    /\ \E q \in 1 .. Len(arrows[1].points) : arrows[1].points[q] = arrows[2].points[1]
    /\ Offsets[arrows[2].id][2] # Pt(0, 0)
    /\ Len(arrows[2].points) = 3

\* C21: the offsets of an arrow depend on the arrows up to it only: computed
\* on the collection cut after the arrow they are the same, and with any new
\* arrow appended to the collection the offsets of every stored arrow are the
\* same as before.
C21_OffsetsOrderStable ==
    /\ \A n \in 1 .. Len(arrows) :
          calculateArrowOffsets(SubSeq(arrows, 1, n))[arrows[n].id] = Offsets[arrows[n].id]
    /\ \A ps \in OffsetPointSeqs :
          LET more == Append(arrows, [id |-> NewArrowId, points |-> ps,
                                      color |-> selectedArrowColor,
                                      thickness |-> ArrowThickness])
          IN  \A n \in 1 .. Len(arrows) :
                 calculateArrowOffsets(more)[arrows[n].id] = Offsets[arrows[n].id]

\* C21 witness: three arrows; the second is pushed aside by the first, and the
\* third has a point on a point of the second
C21_Witness ==
    /\ Len(arrows) = 3
    /\ \E k \in 1 .. Len(arrows[2].points) : Offsets[arrows[2].id][k] # Pt(0, 0)
    /\ \E k \in 1 .. Len(arrows[2].points) : \E q \in 1 .. Len(arrows[3].points) :
          arrows[2].points[k] = arrows[3].points[q]
    /\ Len(arrows[1].points) = 3

\* C22: on the edit tab a press of either button, and a move of the pointer
\* during a drag, at a position outside the map is handled to its end and
\* leaves the tiles and the paths as they are, in both drawing modes.
C22_OutOfRangeRequestsIgnored ==
    \A p \in ClickPos :
        (appMode = "edit" /\ ~InMap(p))
          => /\ ENABLED (handleMouseDown(0, p) /\ UNCHANGED <<mapTiles, paths>>)
             /\ ENABLED (handleMouseDown(2, p) /\ UNCHANGED <<mapTiles, paths>>)
             /\ ENABLED (handleMouseMove(p) /\ UNCHANGED <<mapTiles, paths>>)
             /\ placeTile(p) = mapTiles
             /\ removeTile(p) = mapTiles
             /\ addPathPoint(p, TRUE, processedCells) = paths
             /\ addPathPoint(p, FALSE, processedCells) = paths
             /\ removePathPoint(p) = paths

\* C22 witness: a tile on the top edge and a path cell are stored, a tile is
\* selected, and an erase drag in tile mode is under way with the pointer free
\* to leave the map above the tile
C22_Witness ==
    /\ appMode = "edit" /\ drawingMode = "tile" /\ isErasing
    /\ selectedTile # NoTile
    /\ TileAt(Pt(1, 0)) # NoTile
    /\ Len(paths) >= 1
    /\ ENABLED RemoveTileRequest(Pt(1, -1))

\* C26: on the edit tab in tile mode a right press at a cell of the map, and
\* a move onto the cell during an erase drag, empties exactly that cell of the
\* first layer and leaves every other cell, the paths and the arrows as they
\* are, whatever the selected tile and the path confinement.
C26_RemoveTileClearsClickedCell ==
    \A p \in ClickPos :
        (appMode = "edit" /\ drawingMode = "tile" /\ InMap(p))
          => /\ ENABLED (/\ handleMouseDown(2, p)
                         /\ mapTiles' = WithTile(p, NoTile)
                         /\ UNCHANGED <<paths, arrows>>)
             /\ (isErasing /\ ~isDrawing)
                   => ENABLED (/\ handleMouseMove(p)
                               /\ mapTiles' = WithTile(p, NoTile)
                               /\ UNCHANGED <<paths, arrows>>)

\* C26 witness: an erase press in tile mode has been made with a door tile
\* selected and confinement to paths on, and the door on the top edge of the
\* block is still stored: the press was at another cell of the block
C26_Witness ==
    /\ appMode = "edit" /\ drawingMode = "tile"
    /\ isErasing /\ ~isDrawing
    /\ selectedTile = "map_door2" /\ placeOnPathOnly
    /\ TileAt(Pt(1, 0)) = "map_door2"
    /\ \A c \in Cells : c # <<1, 0>> => mapTiles[c] = NoTile

\* C24: on the comment tab with no arrow in progress, a right press at any
\* fine cell a stored arrow lies on (a point of it, or a cell of a segment
\* between two consecutive points) removes that arrow from the collection.
C24_RightClickOnArrowDeletes ==
    \A p \in ClickPos : \A i \in 1 .. Len(arrows) :
        (appMode = "comment" /\ Idle /\ OnArrow(arrows[i], p))
          => ENABLED (/\ ArrowRightClick(p)
                      /\ ~HasArrowId(arrows', arrows[i].id))

C27_InProgressPointsAnchored ==
    /\ \A k \in 1 .. Len(currentArrowPoints) : ValidAnchor(currentArrowPoints[k])
    /\ \A p \in ClickPos :
          (appMode = "comment" /\ Drawing /\ Len(currentArrowPoints) >= 2)
            => ENABLED (/\ ArrowRightClick(p)
                        /\ Len(arrows') = Len(arrows) + 1
                        /\ \A k \in 1 .. Len(arrows'[Len(arrows')].points) :
                              ValidAnchor(arrows'[Len(arrows')].points[k]))

\* C29: a press or a move of the pointer handled on the edit tab changes
\* neither the arrows nor the arrow in progress, and a press or a move of the
\* pointer handled on the comment tab changes neither the tiles nor the paths,
\* also when a drag begun on the edit tab is still going on.
C29_PointerEventsStayInTheirMode ==
    \A p \in ClickPos :
        /\ appMode = "edit" =>
              ~ENABLED (/\ \/ handleMouseDown(0, p)
                           \/ handleMouseDown(2, p)
                           \/ handleMouseMove(p)
                        /\ <<arrows, isDrawingArrow, currentArrowPoints>>'
                              # <<arrows, isDrawingArrow, currentArrowPoints>>)
        /\ appMode = "comment" =>
              ~ENABLED (/\ \/ handleMouseDown(0, p)
                           \/ handleMouseDown(2, p)
                           \/ handleMouseMove(p)
                        /\ <<mapTiles, paths>>' # <<mapTiles, paths>>)

C25_EditsEventuallyAutoSaved ==
    (TileCount(mapTiles) > 0 \/ arrows # << >> \/ paths # << >>)
        ~> (autoSaveItem = stringify(SessionMap(mapName, mapId)))

\* C28: a confirmed save, an overwrite of a saved map and a load of a map
\* leave hasUnsavedChanges false once their effects have run, and while it is
\* false a step that changes neither the tiles, the arrows nor the paths
\* leaves it false.
C28_SavedMeansNoUnsavedChanges ==
    [][/\ (\/ \E saveTitle \in SaveTitles : \E saveMapId \in SaveMapIdInputs :
                \E generated \in GeneratedMapIds :
                    handleConfirmSave(saveTitle, saveMapId, generated)
           \/ \E k \in 1 .. Len(wizardryMaps) : handleOverwriteMap(k)
           \/ \E k \in 1 .. Len(wizardryMaps) : handleLoadMap(k))
             => ~hasUnsavedChanges'
       /\ (~hasUnsavedChanges /\ UNCHANGED <<mapTiles, arrows, paths>>)
             => ~hasUnsavedChanges']_vars

====
